---------------------------- MODULE Spec2Model ----------------------------
(***************************************************************************)
(* Delivery robot firmware (Arduino Mega, AVR: int is 16 bits, unsigned    *)
(* long is 32 bits): the dispatch loop, the protocol parser, the motor     *)
(* controller, the box manager and the serial watchdog.                    *)
(*                                                                         *)
(* C strings are sequences of one-character strings.  Serial output is the *)
(* sequence of lines written during the current loop iteration.            *)
(***************************************************************************)
EXTENDS Integers, Sequences, FiniteSets, TLC

\* ------------------------------------------------------------------------
\* Program constants (firmware/include/Config.h)
\* ------------------------------------------------------------------------
CMD_BUFFER_SIZE == 64
WATCHDOG_TIMEOUT_MS == 2000
RAMP_INTERVAL_MS == 2
DEFAULT_SPEED == 200
BOX_COUNT == 2
SERVO_OPEN_ANGLE == 0
SERVO_CLOSE_ANGLE == 90

\* sizeof(cmd.type) - 1, sizeof(cmd.action) - 1, sizeof(cmd.value) - 1
TYPE_CAP == 7
ACTION_CAP == 11
VALUE_CAP == 31
\* UIController::safePrint copies at most 16 characters
LCD_COLS == 16

\* ------------------------------------------------------------------------
\* Bounds of the model
\* ------------------------------------------------------------------------
\* loop() iterations explored in the watchdog scenario and in the box scenario
MaxIterWd == 4
MaxIterBox == 2
\* chunks of serial input drained by one iteration's while loop
MaxRx == 1
\* direct calls of the motor controller explored
MaxCalls == 7
\* loop() iterations explored in the parser scenario
MaxIterParse == 1
\* loop() iterations explored in the protocol scenario
MaxIterProto == 2
\* loop() iterations explored in the ordering scenario
MaxIterOrder == 2
\* fail-safe scenario: iterations in which input may arrive, and further
\* iterations that may follow less than the watchdog timeout apart
MaxLiveInput == 2
MaxLiveShort == 3

\* ------------------------------------------------------------------------
\* Machine arithmetic
\* ------------------------------------------------------------------------
W16 == 65536
W8 == 256

\* An unsigned long (uint32_t) is the pair <<high 16 bits, low 16 bits>>.
U32(n) == <<(n \div W16) % W16, n % W16>>
Zero32 == <<0, 0>>
\* a + b and a - b modulo 2^32
Add32(a, b) ==
  LET lo == a[2] + b[2]
  IN <<(a[1] + b[1] + lo \div W16) % W16, lo % W16>>
Sub32(a, b) ==
  LET lo == a[2] - b[2]
  IN <<(a[1] - b[1] - (IF lo < 0 THEN 1 ELSE 0)) % W16, lo % W16>>
\* a >= b and a > b on unsigned longs
Ge32(a, b) == a[1] > b[1] \/ (a[1] = b[1] /\ a[2] >= b[2])
Gt32(a, b) == a[1] > b[1] \/ (a[1] = b[1] /\ a[2] > b[2])
\* conversion of an int to uint32_t (sign extension) and to uint8_t
ToU32(i) == IF i >= 0 THEN <<0, i>> ELSE <<W16 - 1, W16 + i>>
ToU8(i) == i % W8
\* an int holds its value modulo 2^16, in -32768..32767
ToInt16(i) == LET r == i % W16 IN IF r >= 32768 THEN r - W16 ELSE r

Min(a, b) == IF a <= b THEN a ELSE b
Abs(a) == IF a < 0 THEN 0 - a ELSE a

\* ------------------------------------------------------------------------
\* libc: strings
\* ------------------------------------------------------------------------
NL == "\n"
CR == "\r"
COLON == ":"

DigitChars == {"0", "1", "2", "3", "4", "5", "6", "7", "8", "9"}
SpaceChars == {" ", "\t", "\n", "\r", "\f"}

DigitVal(c) ==
  CASE c = "0" -> 0 [] c = "1" -> 1 [] c = "2" -> 2 [] c = "3" -> 3
    [] c = "4" -> 4 [] c = "5" -> 5 [] c = "6" -> 6 [] c = "7" -> 7
    [] c = "8" -> 8 [] c = "9" -> 9

DigitChar(d) ==
  CASE d = 0 -> "0" [] d = 1 -> "1" [] d = 2 -> "2" [] d = 3 -> "3"
    [] d = 4 -> "4" [] d = 5 -> "5" [] d = 6 -> "6" [] d = 7 -> "7"
    [] d = 8 -> "8" [] d = 9 -> "9"

\* the least element of the non-empty set S of integers
Least(S) == CHOOSE j \in S : \A k \in S : j <= k

\* first index j >= i of s whose character is not in D (Len(s) + 1 if none;
\* i itself if i is beyond the end of s)
SkipChars(s, i, D) ==
  LET hits == {j \in i..Len(s) : s[j] \notin D}
  IN IF i > Len(s) THEN i
     ELSE IF hits = {} THEN Len(s) + 1 ELSE Least(hits)

\* first index j >= i of s whose character is in D (Len(s) + 1 if none; i
\* itself if i is beyond the end of s)
FindChars(s, i, D) ==
  LET hits == {j \in i..Len(s) : s[j] \in D}
  IN IF i > Len(s) THEN i
     ELSE IF hits = {} THEN Len(s) + 1 ELSE Least(hits)

\* strtok_r continuing at index i with delimiter set D: leading delimiters
\* are skipped; no token when only delimiters (or nothing) are left.
StrTok(s, i, D) ==
  LET b == SkipChars(s, i, D)
      e == FindChars(s, b, D)
  IN IF b > Len(s)
       THEN [found |-> FALSE, tok |-> <<>>, next |-> b]
       ELSE [found |-> TRUE, tok |-> SubSeq(s, b, e - 1),
             next |-> IF e > Len(s) THEN e ELSE e + 1]

\* strncpy(dst, src, n) followed by dst[n] = '\0'
StrNCpy(src, n) == SubSeq(src, 1, Min(Len(src), n))

\* the decimal digits of s from index i on, accumulated
RECURSIVE AtoiDigits(_, _, _)
AtoiDigits(s, i, acc) ==
  IF i > Len(s) \/ s[i] \notin DigitChars THEN acc
  ELSE AtoiDigits(s, i + 1, acc * 10 + DigitVal(s[i]))

\* atoi: leading white space, an optional sign, then digits up to the first
\* other character; the result is an int (avr-libc accumulates in 16 bits).
Atoi(s) ==
  LET b == SkipChars(s, 1, SpaceChars)
      neg == b <= Len(s) /\ s[b] = "-"
      d == IF b <= Len(s) /\ s[b] \in {"-", "+"} THEN b + 1 ELSE b
      v == AtoiDigits(s, d, 0)
  IN ToInt16(IF neg THEN 0 - v ELSE v)

\* Print::print of an unsigned number: its decimal digits
RECURSIVE DecStr(_)
DecStr(n) ==
  IF n < 10 THEN <<DigitChar(n)>> ELSE Append(DecStr(n \div 10), DigitChar(n % 10))

\* ------------------------------------------------------------------------
\* String literals of the firmware
\* ------------------------------------------------------------------------
S_MOV == <<"M", "O", "V">>
S_SRV == <<"S", "R", "V">>
S_LCD == <<"L", "C", "D">>
S_SYS == <<"S", "Y", "S">>
S_FWD == <<"F", "W", "D">>
S_BCK == <<"B", "C", "K">>
S_STP == <<"S", "T", "P">>
S_CLS == <<"C", "L", "S">>
S_PING == <<"P", "I", "N", "G">>
S_OPEN == <<"O", "P", "E", "N">>
S_ACK == <<"A", "C", "K", ":">>
S_SYS_PONG == <<"S", "Y", "S", ":", "P", "O", "N", "G">>
S_EVT_LMT == <<"E", "V", "T", ":", "L", "M", "T", ":">>
S_EVT_ALARM == <<"E", "V", "T", ":", "A", "L", "A", "R", "M", ":",
                 "B", "O", "X", "_", "F", "O", "R", "C", "E", "D", ":">>
S_EVT_KEY == <<"E", "V", "T", ":", "K", "E", "Y", ":">>
S_ROBOT_ONLINE == <<"R", "O", "B", "O", "T", " ", "O", "N", "L", "I", "N", "E">>
S_ALARM_CMD_LOST == <<"A", "L", "A", "R", "M", ":", " ", "C", "M", "D", " ",
                      "L", "O", "S", "T">>

\* ------------------------------------------------------------------------
\* ProtocolHandler
\* ------------------------------------------------------------------------
\* ParsedCommand::ParsedCommand
EmptyCommand == [type |-> <<>>, action |-> <<>>, value |-> <<>>, isValid |-> FALSE]

\* ProtocolHandler::parse
parse(rawBuffer) ==
  LET t1 == StrTok(rawBuffer, 1, {COLON})
      t2 == StrTok(rawBuffer, t1.next, {COLON})
      t3 == StrTok(rawBuffer, t2.next, {NL, CR})
  IN IF Len(rawBuffer) = 0 THEN EmptyCommand
     ELSE IF ~t1.found THEN EmptyCommand
     ELSE IF ~t2.found
       THEN [EmptyCommand EXCEPT !.type = StrNCpy(t1.tok, TYPE_CAP)]
     ELSE IF ~t3.found
       THEN [EmptyCommand EXCEPT !.type = StrNCpy(t1.tok, TYPE_CAP),
                                 !.action = StrNCpy(t2.tok, ACTION_CAP)]
     ELSE [type |-> StrNCpy(t1.tok, TYPE_CAP),
           action |-> StrNCpy(t2.tok, ACTION_CAP),
           value |-> StrNCpy(t3.tok, VALUE_CAP),
           isValid |-> TRUE]

\* an acknowledgement without the command type
sendAck_NoType(type) == S_ACK

\* ProtocolHandler::sendAck: the line "ACK:<type>"
sendAck(type) == S_ACK \o type

\* ------------------------------------------------------------------------
\* MotorController
\* ------------------------------------------------------------------------
\* MotorController::MotorController, then pinMode(OUTPUT) leaves every pin LOW
MotorInit ==
  [curL |-> 0, curR |-> 0, tgtL |-> 0, tgtR |-> 0, dirL |-> 0, dirR |-> 0,
   lastRamp |-> Zero32, moveEnd |-> Zero32,
   enL |-> 0, in1L |-> 0, in2L |-> 0, enR |-> 0, in1R |-> 0, in2R |-> 0]

\* MotorController::isMoving
isMoving(m) == m.curL > 0 \/ m.curR > 0

\* a move that leaves a pending deadline alone when its duration is 0
move_KeepsDeadline(m, leftDir, rightDir, speed, duration, t) ==
  [m EXCEPT !.dirL = leftDir, !.dirR = rightDir,
            !.tgtL = speed, !.tgtR = speed,
            !.moveEnd = IF Gt32(duration, Zero32) THEN Add32(t, duration) ELSE @]

\* MotorController::move; t is millis() at the call, duration a uint32_t
move(m, leftDir, rightDir, speed, duration, t) ==
  [m EXCEPT !.dirL = leftDir, !.dirR = rightDir,
            !.tgtL = speed, !.tgtR = speed,
            !.moveEnd = IF Gt32(duration, Zero32) THEN Add32(t, duration) ELSE Zero32]

\* MotorController::stop
stop(m, immediate) ==
  LET m1 == [m EXCEPT !.tgtL = 0, !.tgtR = 0, !.moveEnd = Zero32]
  IN IF immediate
       THEN [m1 EXCEPT !.curL = 0, !.curR = 0, !.enL = 0, !.enR = 0]
       ELSE m1

\* a ramp step that never ramps down
RampStep_NoDown(cur, tgt) == IF cur < tgt THEN cur + 1 ELSE cur

\* a ramp step of two units
RampStep_TwoUnits(cur, tgt) ==
  IF cur < tgt THEN Min(cur + 2, tgt) ELSE IF cur > tgt THEN cur - 1 ELSE cur

\* one side's ramp step in MotorController::update
RampStep(cur, tgt) ==
  IF cur < tgt THEN cur + 1 ELSE IF cur > tgt THEN cur - 1 ELSE cur

\* MotorController::applyHardwarePins: the levels written to (in1, in2)
DirPins(dir) ==
  IF dir > 0 THEN <<1, 0>> ELSE IF dir < 0 THEN <<0, 1>> ELSE <<0, 0>>

\* whether update, called at millis() = t, finds the move deadline elapsed
DeadlineElapsed(m, t) == Gt32(m.moveEnd, Zero32) /\ Ge32(t, m.moveEnd)

\* a ramp block that runs on every call
RampDue_Always(m, t) == TRUE

\* whether update, called at millis() = t, runs its ramp block
RampDue(m, t) == Ge32(Sub32(t, m.lastRamp), U32(RAMP_INTERVAL_MS))

\* MotorController::update; t is millis() at the call
update(m, t) ==
  LET m1 == IF DeadlineElapsed(m, t) THEN stop(m, FALSE) ELSE m
      cl == RampStep(m1.curL, m1.tgtL)
      cr == RampStep(m1.curR, m1.tgtR)
  IN IF RampDue(m1, t)
       THEN [m1 EXCEPT !.lastRamp = t, !.curL = cl, !.curR = cr,
                       !.in1L = DirPins(m1.dirL)[1], !.in2L = DirPins(m1.dirL)[2],
                       !.enL = cl,
                       !.in1R = DirPins(m1.dirR)[1], !.in2R = DirPins(m1.dirR)[2],
                       !.enR = cr]
       ELSE m1

\* ------------------------------------------------------------------------
\* Box, BoxManager
\* ------------------------------------------------------------------------
BoxIds == 1..BOX_COUNT

\* Box::open
open(b) == [b EXCEPT !.servo = SERVO_OPEN_ANGLE, !.isLocked = FALSE]

\* a close that moves the servo only
close_ServoOnly(b) == [b EXCEPT !.servo = SERVO_CLOSE_ANGLE]

\* Box::close
close(b) == [b EXCEPT !.servo = SERVO_CLOSE_ANGLE, !.isLocked = TRUE]

\* Box::Box then Box::init; pin is the level digitalRead returns (0 = LOW)
BoxInit(id, pin) ==
  [close([id |-> id, servo |-> SERVO_CLOSE_ANGLE, isLocked |-> TRUE,
          lastLimitState |-> FALSE])
     EXCEPT !.lastLimitState = (pin = 0)]

\* an alarm test that ignores the lock
ForcedOpen_NoLockTest(b, currentReading) == ~currentReading

\* the alarm test of Box::update for an accepted transition to currentReading
ForcedOpen(b, currentReading) == ~currentReading /\ b.isLocked

\* a Box::update that reports a changed reading without storing it
BoxUpdate_NoStore(b, pin) ==
  LET currentReading == (pin = 0)
      lmt == S_EVT_LMT \o DecStr(b.id) \o <<COLON>>
               \o (IF currentReading THEN <<"1">> ELSE <<"0">>)
      alarm == S_EVT_ALARM \o DecStr(b.id)
  IN IF currentReading # b.lastLimitState
       THEN [box |-> b,
             lines |-> IF ForcedOpen(b, currentReading)
                         THEN <<lmt, alarm>> ELSE <<lmt>>]
       ELSE [box |-> b, lines |-> <<>>]

\* Box::update: the box afterwards and the serial lines it writes
BoxUpdate(b, pin) ==
  LET currentReading == (pin = 0)
      lmt == S_EVT_LMT \o DecStr(b.id) \o <<COLON>>
               \o (IF currentReading THEN <<"1">> ELSE <<"0">>)
      alarm == S_EVT_ALARM \o DecStr(b.id)
  IN IF currentReading # b.lastLimitState
       THEN [box |-> [b EXCEPT !.lastLimitState = currentReading],
             lines |-> IF ForcedOpen(b, currentReading)
                         THEN <<lmt, alarm>> ELSE <<lmt>>]
       ELSE [box |-> b, lines |-> <<>>]

\* a setBoxState that opens or closes every box
setBoxState_EveryBox(bx, boxId, lock) ==
  [i \in DOMAIN bx |-> IF lock THEN close(bx[i]) ELSE open(bx[i])]

\* BoxManager::setBoxState; boxId is a uint8_t, and so is index
setBoxState(bx, boxId, lock) ==
  LET index == ToU8(boxId - 1)
  IN IF index < BOX_COUNT
       THEN [bx EXCEPT ![index + 1] = IF lock THEN close(@) ELSE open(@)]
       ELSE bx

\* ------------------------------------------------------------------------
\* UIController
\* ------------------------------------------------------------------------
\* UIController::display; row is a uint8_t
display(lcd, row, text) ==
  IF row > 1 THEN lcd ELSE [lcd EXCEPT ![row] = StrNCpy(text, LCD_COLS)]

\* UIController::clear
clear(lcd) == [r \in {0, 1} |-> <<>>]

\* ------------------------------------------------------------------------
\* main: handleCommand and the byte loop of loop()
\* ------------------------------------------------------------------------
\* handleCommand; st holds the services' state (mot, boxes, lcd) and the
\* serial lines written (out); t is millis() during the call
handleCommand(st, cmd, t) ==
  IF cmd.type = S_MOV THEN
    LET duration == ToU32(Atoi(cmd.value))
        m == IF cmd.action = S_FWD
               THEN move(st.mot, 1, 1, DEFAULT_SPEED, duration, t)
             ELSE IF cmd.action = S_BCK
               THEN move(st.mot, -1, -1, DEFAULT_SPEED, duration, t)
             ELSE IF cmd.action = S_STP
               THEN stop(st.mot, TRUE)
             ELSE st.mot
    IN [st EXCEPT !.mot = m, !.out = Append(@, sendAck(S_MOV))]
  ELSE IF cmd.type = S_SRV THEN
    LET id == ToU8(Atoi(cmd.action))
        lock == cmd.value # S_OPEN
    IN [st EXCEPT !.boxes = setBoxState(@, id, lock),
                  !.out = Append(@, sendAck(S_SRV))]
  ELSE IF cmd.type = S_LCD THEN
    IF cmd.action = S_CLS
      THEN [st EXCEPT !.lcd = clear(@)]
      ELSE [st EXCEPT !.lcd = display(@, ToU8(Atoi(cmd.action)), cmd.value)]
  ELSE IF cmd.type = S_SYS THEN
    IF cmd.action = S_PING
      THEN [st EXCEPT !.out = Append(@, S_SYS_PONG)]
      ELSE st
  ELSE st

\* what loop() does with a completed line: parse, dispatch if valid
Dispatch(st, rawBuffer, t) ==
  LET cmd == parse(rawBuffer)
  IN IF cmd.isValid THEN handleCommand(st, cmd, t) ELSE st

\* a byte loop that stores every byte
RxByte_NoCapacityTest(st, c, loopNow, t) ==
  LET s1 == [st EXCEPT !.lastSerial = loopNow]
  IN IF c = NL
       THEN [Dispatch(s1, s1.buf, t) EXCEPT !.buf = <<>>]
       ELSE [s1 EXCEPT !.buf = Append(@, c)]

\* one pass of the while (Serial.available()) body for the byte c; st also
\* holds cmdBuffer[0..bufferIdx-1] (buf) and lastSerialTime (lastSerial)
RxByte(st, c, loopNow, t) ==
  LET s1 == [st EXCEPT !.lastSerial = loopNow]
  IN IF c = NL
       THEN [Dispatch(s1, s1.buf, t) EXCEPT !.buf = <<>>]
     ELSE IF Len(s1.buf) < CMD_BUFFER_SIZE - 1
       THEN [s1 EXCEPT !.buf = Append(@, c)]
     ELSE s1

\* the while loop over the bytes of chunk, in order: the first half of the
\* chunk, then the second half (the test s1 = s1 makes the evaluation order
\* follow the byte order, which keeps the evaluation of long chunks shallow)
RECURSIVE RxBytes(_, _, _, _)
RxBytes(st, chunk, loopNow, t) ==
  IF chunk = <<>> THEN st
  ELSE IF Len(chunk) = 1 THEN RxByte(st, chunk[1], loopNow, t)
  ELSE LET h == Len(chunk) \div 2
           s1 == RxBytes(st, SubSeq(chunk, 1, h), loopNow, t)
       IN IF s1 = s1
            THEN RxBytes(s1, SubSeq(chunk, h + 1, Len(chunk)), loopNow, t)
            ELSE s1

\* ------------------------------------------------------------------------
\* Serial input explored: lines with their terminator, and a stray byte
\* ------------------------------------------------------------------------
L_MovFwd0 == <<"M", "O", "V", ":", "F", "W", "D", ":", "0", NL>>
L_MovStp == <<"M", "O", "V", ":", "S", "T", "P", ":", "0", NL>>
L_Srv1Open == <<"S", "R", "V", ":", "1", ":", "O", "P", "E", "N", NL>>
L_Srv1Lock == <<"S", "R", "V", ":", "1", ":", "L", "O", "C", "K", NL>>
L_Srv257Open == <<"S", "R", "V", ":", "2", "5", "7", ":", "O", "P", "E", "N", NL>>
L_Srv0Open == <<"S", "R", "V", ":", "0", ":", "O", "P", "E", "N", NL>>
L_SrvXOpen == <<"S", "R", "V", ":", "x", ":", "O", "P", "E", "N", NL>>
L_ColonMov == <<":", "M", "O", "V", ":", "F", "W", "D", ":", "0", NL>>
L_MovEmptyAct == <<"M", "O", "V", ":", ":", "S", "T", "P", ":", "0", NL>>
L_BadLine == <<"B", "A", "D", "L", "I", "N", "E", NL>>
L_MovFwdNoValue == <<"M", "O", "V", ":", "F", "W", "D", NL>>
L_Empty == <<NL>>
L_Junk == <<"x">>
L_MovFwd1500 == <<"M", "O", "V", ":", "F", "W", "D", ":", "1", "5", "0", "0", NL>>
L_Lcd1Empty == <<"L", "C", "D", ":", "1", ":", NL>>

\* n copies of the character c
Rep(c, n) == [i \in 1..n |-> c]

L_MovBck3 == <<"M", "O", "V", ":", "B", "C", "K", ":", "3", NL>>
L_MovLft0 == <<"M", "O", "V", ":", "L", "F", "T", ":", "0", NL>>
L_MovRgt3 == <<"M", "O", "V", ":", "R", "G", "T", ":", "3", NL>>
L_MovXyz0 == <<"M", "O", "V", ":", "X", "Y", "Z", ":", "0", NL>>
L_Srv2Open == <<"S", "R", "V", ":", "2", ":", "O", "P", "E", "N", NL>>
L_Srv2LowerOpen == <<"S", "R", "V", ":", "2", ":", "o", "p", "e", "n", NL>>
L_Lcd0Hi == <<"L", "C", "D", ":", "0", ":", "H", "I", NL>>
L_LcdCls == <<"L", "C", "D", ":", "C", "L", "S", ":", "0", NL>>
L_SysPing == <<"S", "Y", "S", ":", "P", "I", "N", "G", NL>>
L_SysPing0 == <<"S", "Y", "S", ":", "P", "I", "N", "G", ":", "0", NL>>
\* two lines read by one pass of the while loop
L_StpThenFwd == L_MovStp \o L_MovFwd0
\* 62 bytes of an unfinished line, and a line of 66 characters
L_Junk62 == Rep("x", CMD_BUFFER_SIZE - 2)
L_LcdLong == <<"L", "C", "D", ":", "0", ":">> \o Rep("v", CMD_BUFFER_SIZE - 4) \o <<NL>>

\* lines TYPE:ACTION:VALUE with fields shorter than, as long as and longer than
\* their capacities, and values that are empty or hold ':', spaces or '\r'
FieldLens(cap) == {1, 2, cap, cap + 1}
ParseValues ==
  {<<>>, <<"1">>, <<"a", ":", "b", " ", "c">>, <<":", "x">>, <<" ">>,
   <<"0", CR>>, Rep("v", VALUE_CAP), Rep("v", VALUE_CAP + 1)}
ParseLines ==
  {Rep("T", a) \o <<COLON>> \o Rep("A", b) \o <<COLON>> \o v \o <<NL>> :
     a \in FieldLens(TYPE_CAP), b \in FieldLens(ACTION_CAP), v \in ParseValues}

\* ------------------------------------------------------------------------
\* State
\* ------------------------------------------------------------------------
VARIABLES
  pc,             \* position in loop(): "loop" (top), "ingest" (in the while
                  \* loop), "update" (before the service updates); "api" when
                  \* the services are called directly
  iter,           \* loop() iterations started (direct calls made, under "api")
  rx,             \* chunks drained in the current iteration
  clock,          \* millis()
  now,            \* loop()'s local now
  lastSerialTime,
  cmdBuffer,      \* cmdBuffer[0..bufferIdx-1]; bufferIdx is its length
  mot,            \* MotorController motors
  boxes,          \* BoxManager boxes: _boxes[index], indexed from 1
  lcd,            \* rows 0 and 1 of the display
  out,            \* serial lines written in the current iteration
  limitPin,       \* level of each box's limit switch pin (0 = LOW = closed)
  op,             \* history: the last operation performed
  rxLine,         \* history: the line completed by the last chunk, if any
  wd,             \* history of the watchdog
  ramp,           \* history of the ramp since the targets were last set
  rawLine,        \* history: the bytes read since the last line terminator
  call            \* history: duration (dur) and time (at) of the last direct
                  \* move call, and the duration of the one before (prevDur)

vars == <<pc, iter, rx, clock, now, lastSerialTime, cmdBuffer, mot, boxes,
          lcd, out, limitPin, op, rxLine, wd, ramp, rawLine, call>>

\* millis() values at which the model starts: just after reset, and shortly
\* before the 32-bit counter wraps
BootClocks == {Zero32, <<W16 - 1, W16 - 4>>}


NO_KEY == "NO_KEY"
Keys == {NO_KEY, "5"}

\* rxLine: whether the last chunk completed a line; then the bytes read for
\* that line (raw), the buffered line handed to parse (text) and the command
\* parse returned (cmd)
NoLine == [done |-> FALSE, raw |-> <<>>, text |-> <<>>, cmd |-> EmptyCommand]

Front(s) == SubSeq(s, 1, Len(s) - 1)

\* the bytes of s after its last line terminator (all of s if it has none)
RECURSIVE LastLine(_)
LastLine(s) ==
  IF s = <<>> \/ s[Len(s)] = NL THEN <<>>
  ELSE Append(LastLine(Front(s)), s[Len(s)])

\* how many valid commands the while loop dispatches reading chunk with buf
\* already buffered: the terminators of chunk at which the buffered line (the
\* bytes since the previous terminator, cut to the buffer's capacity) is valid
ValidLines(buf, chunk) ==
  LET nls == {i \in DOMAIN chunk : chunk[i] = NL}
      Before(i) == {j \in nls : j < i}
      Start(i) == IF Before(i) = {} THEN 0
                  ELSE CHOOSE j \in Before(i) : \A k \in Before(i) : k <= j
      Read(i) == (IF Start(i) = 0 THEN buf ELSE <<>>)
                   \o SubSeq(chunk, Start(i) + 1, i - 1)
      LineAt(i) == SubSeq(Read(i), 1, Min(Len(Read(i)), CMD_BUFFER_SIZE - 1))
  IN Cardinality({i \in nls : parse(LineAt(i)).isValid})

\* ramp history: the current levels when the targets were last set or the
\* motors last stopped at once (fromL, fromR), the ramp ticks since then, and
\* the current levels before the last operation (prevL, prevR)
RampStart(m) ==
  [fromL |-> m.curL, fromR |-> m.curR, ticks |-> 0, prevL |-> m.curL,
   prevR |-> m.curR]

\* the ramp history after an operation on the motor state m0, mT being the
\* state once the operation had set the targets and before it ramped;
\* ticked: the operation was an update call with the ramp interval elapsed
RampNext(r, m0, mT, immediate, ticked) ==
  LET r1 == IF immediate \/ mT.tgtL # m0.tgtL \/ mT.tgtR # m0.tgtR
              THEN RampStart(mT) ELSE r
  IN [r1 EXCEPT !.ticks = IF ticked THEN @ + 1 ELSE @,
                !.prevL = m0.curL, !.prevR = m0.curR]

\* setup(): begin() of every service, then the banner and the watchdog reset
Boot(b, pins) ==
  /\ clock = b
  /\ now = b
  /\ lastSerialTime = b
  /\ cmdBuffer = <<>>
  /\ mot = [stop(MotorInit, TRUE) EXCEPT !.lastRamp = b]
  /\ boxes = [i \in BoxIds |-> BoxInit(i, pins[i])]
  /\ lcd = display(clear(<<>>), 0, S_ROBOT_ONLINE)
  /\ out = <<>>
  /\ limitPin = pins
  /\ iter = 0
  /\ rx = 0
  /\ op = "setup"
  /\ rxLine = NoLine
  /\ wd = [lastValid |-> b, validThisIter |-> FALSE, movingAtEval |-> FALSE,
           tripped |-> FALSE, tripsSinceValid |-> 0, everTripped |-> FALSE,
           cmds |-> 0]
  /\ ramp = RampStart(MotorInit)
  /\ rawLine = <<>>
  /\ call = [dur |-> 0, at |-> b, prevDur |-> 0]

PinLevels == [BoxIds -> {0, 1}]
AllClosed == [i \in BoxIds |-> 0]

\* ------------------------------------------------------------------------
\* loop()
\* ------------------------------------------------------------------------
\* unsigned long now = millis(); since the previous iteration dt ms have
\* passed and the doors have moved to the positions pins
LoopStart(dt, pins, maxIter) ==
  /\ pc = "loop"
  /\ iter < maxIter
  /\ iter' = iter + 1
  /\ clock' = Add32(clock, U32(dt))
  /\ now' = clock'
  /\ limitPin' = pins
  /\ pc' = "ingest"
  /\ rx' = 0
  /\ out' = <<>>
  /\ op' = "loop"
  /\ rxLine' = NoLine
  /\ wd' = [wd EXCEPT !.validThisIter = FALSE, !.movingAtEval = FALSE,
                      !.tripped = FALSE, !.cmds = 0]
  /\ UNCHANGED <<lastSerialTime, cmdBuffer, mot, boxes, lcd, ramp, rawLine, call>>

\* 1. DATA INGESTION: the while loop reads the bytes of chunk
Ingest(chunk, dt) ==
  /\ pc = "ingest"
  /\ rx < MaxRx
  /\ rx' = rx + 1
  /\ clock' = Add32(clock, U32(dt))
  /\ LET st == [mot |-> mot, boxes |-> boxes, lcd |-> lcd, out |-> out,
                buf |-> cmdBuffer, lastSerial |-> lastSerialTime]
         s1 == RxBytes(st, chunk, now, clock')
         done == chunk[Len(chunk)] = NL
         line == IF done THEN RxBytes(st, Front(chunk), now, clock').buf ELSE <<>>
         cmds == ValidLines(cmdBuffer, chunk)
         valid == cmds > 0
     IN /\ mot' = s1.mot
        /\ boxes' = s1.boxes
        /\ lcd' = s1.lcd
        /\ out' = s1.out
        /\ cmdBuffer' = s1.buf
        /\ lastSerialTime' = s1.lastSerial
        /\ rxLine' = [done |-> done,
                      raw |-> IF done THEN LastLine(Front(rawLine \o chunk))
                              ELSE <<>>,
                      text |-> line,
                      cmd |-> IF done THEN parse(line) ELSE EmptyCommand]
        /\ wd' = IF valid
                   THEN [wd EXCEPT !.lastValid = now, !.validThisIter = TRUE,
                                   !.tripsSinceValid = 0, !.cmds = @ + cmds]
                   ELSE wd
  /\ rawLine' = LastLine(rawLine \o chunk)
  /\ op' = "rx"
  /\ UNCHANGED <<pc, iter, now, limitPin, ramp, call>>

\* a watchdog that never trips
WatchdogTrips_Never(t, last, m) == FALSE

\* a watchdog test that ignores isMoving()
WatchdogTrips_NoMovingTest(t, last, m) ==
  Gt32(Sub32(t, last), U32(WATCHDOG_TIMEOUT_MS))

\* the test of 2. SAFETY WATCHDOG
WatchdogTrips(t, last, m) ==
  Gt32(Sub32(t, last), U32(WATCHDOG_TIMEOUT_MS)) /\ isMoving(m)

\* Serial.available() returns 0, then 2. SAFETY WATCHDOG
Watchdog ==
  /\ pc = "ingest"
  /\ pc' = "update"
  /\ IF WatchdogTrips(now, lastSerialTime, mot)
       THEN /\ mot' = stop(mot, TRUE)
            /\ lcd' = display(lcd, 0, S_ALARM_CMD_LOST)
            /\ wd' = [wd EXCEPT !.movingAtEval = isMoving(mot), !.tripped = TRUE,
                                !.tripsSinceValid = Min(@ + 1, 2),
                                !.everTripped = TRUE]
       ELSE /\ UNCHANGED <<mot, lcd>>
            /\ wd' = [wd EXCEPT !.movingAtEval = isMoving(mot)]
  /\ op' = "watchdog"
  /\ rxLine' = NoLine
  /\ UNCHANGED <<iter, rx, clock, now, lastSerialTime, cmdBuffer, boxes, out,
                 limitPin, ramp, rawLine, call>>

\* the lines BoxManager::update writes for boxes i..BOX_COUNT, in order
RECURSIVE BoxLines(_, _, _)
BoxLines(bx, pins, i) ==
  IF i > BOX_COUNT THEN <<>>
  ELSE BoxUpdate(bx[i], pins[i]).lines \o BoxLines(bx, pins, i + 1)

\* BoxManager::update: every box afterwards
BoxesAfter(bx, pins) == [i \in BoxIds |-> BoxUpdate(bx[i], pins[i]).box]

\* UIController::update: the line written for the key getKey() returns
KeyLines(key) == IF key # NO_KEY THEN <<S_EVT_KEY \o <<key>> >> ELSE <<>>

\* 3. SERVICE UPDATES: motors.update(); boxes.update(); ui.update();
ServiceUpdates(dt, key) ==
  /\ pc = "update"
  /\ pc' = "loop"
  /\ clock' = Add32(clock, U32(dt))
  /\ mot' = update(mot, clock')
  /\ boxes' = BoxesAfter(boxes, limitPin)
  /\ out' = out \o BoxLines(boxes, limitPin, 1) \o KeyLines(key)
  /\ op' = "update"
  /\ UNCHANGED <<iter, rx, now, lastSerialTime, cmdBuffer, lcd, limitPin, rxLine,
                 wd, ramp, rawLine, call>>

\* ------------------------------------------------------------------------
\* Watchdog scenario: the loop with move commands, malformed lines and stray
\* bytes, iterations up to and beyond the watchdog timeout apart; the doors
\* stay closed and no key is pressed.
\* ------------------------------------------------------------------------
WdChunks == {L_MovFwd0, L_MovStp, L_BadLine}
WdLoopDts == {RAMP_INTERVAL_MS, WATCHDOG_TIMEOUT_MS, WATCHDOG_TIMEOUT_MS + 1}

InitWd ==
  /\ pc = "loop"
  /\ \E b \in BootClocks : Boot(b, AllClosed)

NextWd ==
  \/ \E dt \in WdLoopDts : LoopStart(dt, AllClosed, MaxIterWd)
  \/ \E chunk \in WdChunks : Ingest(chunk, 0)
  \/ Watchdog
  \/ ServiceUpdates(0, NO_KEY)

SpecWd == InitWd /\ [][NextWd]_vars

\* ------------------------------------------------------------------------
\* Command scenario: the loop with box and motor commands, malformed lines
\* and a stray byte, a ramp interval between iterations; the doors move and
\* keys are pressed.
\* ------------------------------------------------------------------------
CmdChunks ==
  {L_MovFwd0, L_Srv1Open, L_Srv1Lock, L_Srv257Open, L_Srv0Open,
   L_SrvXOpen, L_ColonMov, L_MovEmptyAct, L_BadLine, L_MovFwdNoValue, L_Empty,
   L_Junk}

InitCmd ==
  /\ pc = "loop"
  /\ \E pins \in PinLevels : Boot(Zero32, pins)

NextCmd ==
  \/ \E pins \in PinLevels : LoopStart(RAMP_INTERVAL_MS, pins, MaxIterBox)
  \/ \E chunk \in CmdChunks : Ingest(chunk, 0)
  \/ Watchdog
  \/ \E key \in Keys : ServiceUpdates(0, key)

SpecCmd == InitCmd /\ [][NextCmd]_vars

\* ------------------------------------------------------------------------
\* Parser scenario: the loop receives one line TYPE:ACTION:VALUE
\* ------------------------------------------------------------------------
ParseChunks == ParseLines \cup {L_MovFwd1500, L_Lcd1Empty}

InitParse ==
  /\ pc = "loop"
  /\ Boot(Zero32, AllClosed)

NextParse ==
  \/ LoopStart(RAMP_INTERVAL_MS, AllClosed, MaxIterParse)
  \/ \E chunk \in ParseChunks : Ingest(chunk, 0)
  \/ Watchdog
  \/ ServiceUpdates(0, NO_KEY)

SpecParse == InitParse /\ [][NextParse]_vars

\* ------------------------------------------------------------------------
\* Protocol scenario: the loop receives one chunk per iteration, a line of
\* every command type, malformed lines, stray bytes or an over-long line; the
\* doors stay closed and no key is pressed.
\* ------------------------------------------------------------------------
ProtoChunks ==
  {L_MovFwd0, L_MovBck3, L_MovLft0, L_MovRgt3, L_MovStp, L_MovXyz0,
   L_Srv1Open, L_Srv1Lock, L_Srv2Open, L_Srv2LowerOpen, L_Srv0Open,
   L_Lcd0Hi, L_LcdCls, L_SysPing, L_SysPing0,
   L_BadLine, L_Empty, L_Junk, L_Junk62, L_LcdLong}

InitProto ==
  /\ pc = "loop"
  /\ Boot(Zero32, AllClosed)

NextProto ==
  \/ LoopStart(RAMP_INTERVAL_MS, AllClosed, MaxIterProto)
  \/ \E chunk \in ProtoChunks : Ingest(chunk, 0)
  \/ Watchdog
  \/ ServiceUpdates(0, NO_KEY)

SpecProto == InitProto /\ [][NextProto]_vars

\* ------------------------------------------------------------------------
\* Ordering scenario: the loop receives none, one or two move commands in an
\* iteration, iterations less than and a full ramp interval apart; the door
\* of box 1 moves.
\* ------------------------------------------------------------------------
OrderChunks == {L_MovFwd0, L_MovStp, L_StpThenFwd, L_Junk}
OrderLoopDts == {1, RAMP_INTERVAL_MS}
OrderPins == {AllClosed, [AllClosed EXCEPT ![1] = 1]}

InitOrder ==
  /\ pc = "loop"
  /\ Boot(Zero32, AllClosed)

NextOrder ==
  \/ \E dt \in OrderLoopDts, pins \in OrderPins :
       LoopStart(dt, pins, MaxIterOrder)
  \/ \E chunk \in OrderChunks : Ingest(chunk, 0)
  \/ Watchdog
  \/ ServiceUpdates(0, NO_KEY)

SpecOrder == InitOrder /\ [][NextOrder]_vars

\* ------------------------------------------------------------------------
\* Fail-safe scenario: move commands and stray bytes arrive during the first
\* MaxLiveInput iterations, then the input is silent and the loop keeps
\* iterating while time advances: iterations a ramp interval apart at first,
\* then iterations more than the watchdog timeout apart.  loop() is called
\* again whenever it returns, and every step of it terminates: weak fairness
\* of the loop's steps.
\* ------------------------------------------------------------------------
LiveChunks == {L_MovFwd0, L_MovBck3, L_MovStp, L_Junk}
LiveShortIters == MaxLiveInput + MaxLiveShort
\* after the short iterations, one long iteration lets a pending ramp step
\* happen and the next one finds the motors moving
LiveIters == LiveShortIters + 2

InitLive ==
  /\ pc = "loop"
  /\ \E b \in BootClocks : Boot(b, AllClosed)

NextLive ==
  \/ LoopStart(RAMP_INTERVAL_MS, AllClosed, LiveShortIters)
  \/ LoopStart(WATCHDOG_TIMEOUT_MS + 1, AllClosed, LiveIters)
  \/ \E chunk \in LiveChunks : iter <= MaxLiveInput /\ Ingest(chunk, 0)
  \/ Watchdog
  \/ ServiceUpdates(0, NO_KEY)

SpecLive == InitLive /\ [][NextLive]_vars /\ WF_vars(NextLive)

\* ------------------------------------------------------------------------
\* Direct calls of MotorController: move, stop and update in any order, with
\* time passing before an update
\* ------------------------------------------------------------------------
ApiDirs == {<<1, 1>>, <<-1, 1>>, <<0, 0>>}
ApiSpeeds == {2, DEFAULT_SPEED}
ApiDurations == {0, 3}
ApiDts == {1, RAMP_INTERVAL_MS}

InitApi ==
  /\ pc = "api"
  /\ \E b \in BootClocks : Boot(b, AllClosed)

ApiMove(leftDir, rightDir, speed, duration) ==
  /\ pc = "api"
  /\ iter < MaxCalls
  /\ iter' = iter + 1
  /\ mot' = move(mot, leftDir, rightDir, speed, U32(duration), clock)
  /\ ramp' = RampNext(ramp, mot, mot', FALSE, FALSE)
  /\ op' = "move"
  /\ call' = [dur |-> duration, at |-> clock, prevDur |-> call.dur]
  /\ UNCHANGED <<pc, rx, clock, now, lastSerialTime, cmdBuffer, boxes, lcd, out,
                 limitPin, rxLine, wd, rawLine>>

ApiStop(immediate) ==
  /\ pc = "api"
  /\ iter < MaxCalls
  /\ iter' = iter + 1
  /\ mot' = stop(mot, immediate)
  /\ ramp' = RampNext(ramp, mot, mot', immediate, FALSE)
  /\ op' = IF immediate THEN "stop_immediate" ELSE "stop"
  /\ UNCHANGED <<pc, rx, clock, now, lastSerialTime, cmdBuffer, boxes, lcd, out,
                 limitPin, rxLine, wd, rawLine, call>>

ApiUpdate(dt) ==
  /\ pc = "api"
  /\ iter < MaxCalls
  /\ iter' = iter + 1
  /\ clock' = Add32(clock, U32(dt))
  /\ mot' = update(mot, clock')
  /\ LET mT == IF DeadlineElapsed(mot, clock') THEN stop(mot, FALSE) ELSE mot
     IN ramp' = RampNext(ramp, mot, mT, FALSE, RampDue(mT, clock'))
  /\ op' = "update"
  /\ UNCHANGED <<pc, rx, now, lastSerialTime, cmdBuffer, boxes, lcd, out,
                 limitPin, rxLine, wd, rawLine, call>>

NextApi ==
  \/ \E dir \in ApiDirs, speed \in ApiSpeeds, d \in ApiDurations :
       ApiMove(dir[1], dir[2], speed, d)
  \/ \E immediate \in BOOLEAN : ApiStop(immediate)
  \/ \E dt \in ApiDts : ApiUpdate(dt)

SpecApi == InitApi /\ [][NextApi]_vars

\* ------------------------------------------------------------------------
\* Properties
\* ------------------------------------------------------------------------
Max(a, b) == IF a >= b THEN a ELSE b

\* how many lines of the sequence lines equal line
Count(lines, line) == Cardinality({i \in DOMAIN lines : lines[i] = line})

\* the lines a step appended to out
NewLines == SubSeq(out', Len(out) + 1, Len(out'))

Stopped(m) ==
  /\ m.curL = 0 /\ m.curR = 0
  /\ m.tgtL = 0 /\ m.tgtR = 0

S_ERR_TIMEOUT == <<"E", "R", "R", ":", "T", "I", "M", "E", "O", "U", "T">>
S_EVT_MOVE_DONE == <<"E", "V", "T", ":", "M", "O", "V", "E", "_", "D", "O", "N", "E">>

\* C1: when the Safety Supervisor has been evaluated in an iteration at which
\* more than WATCHDOG_TIMEOUT_MS have passed since the last valid command and
\* the motors were moving, both current levels and both targets are 0 and the
\* move deadline is cleared before the service updates run, whatever other
\* bytes arrived in the meantime.
C1_SilenceStopsMotion ==
  (/\ pc = "update"
   /\ wd.movingAtEval
   /\ Gt32(Sub32(now, wd.lastValid), U32(WATCHDOG_TIMEOUT_MS)))
    => (Stopped(mot) /\ mot.moveEnd = Zero32)

\* C2: an iteration in which the Safety Supervisor trips writes exactly one
\* line ERR:TIMEOUT to the serial stream.
C2_TripWritesErrTimeout ==
  (pc = "update" /\ wd.tripped) => Count(out, S_ERR_TIMEOUT) = 1

\* C3: the Safety Supervisor trips only in an iteration in which isMoving()
\* was true when it was evaluated, at most once between two valid commands,
\* and never in an iteration in which a valid command was received.
C3_TripOnlyWhileMoving ==
  /\ wd.tripped => wd.movingAtEval
  /\ wd.tripsSinceValid <= 1
  /\ wd.tripped => ~wd.validThisIter

\* a valid command is received in an iteration after the watchdog has tripped
C3_Witness ==
  /\ pc = "update"
  /\ wd.everTripped
  /\ wd.validThisIter
  /\ ~wd.tripped

\* C4: one call of update changes each side's current level by at most 1,
\* and by 0 when less than RAMP_INTERVAL_MS have passed since the last ramp
\* step; only stop(immediate = true) changes a current level by more than 1.
C4_RampStepBound ==
  [][/\ op' = "update" =>
          /\ Abs(mot'.curL - mot.curL) <= 1
          /\ Abs(mot'.curR - mot.curR) <= 1
          /\ Gt32(U32(RAMP_INTERVAL_MS), Sub32(clock', mot.lastRamp)) =>
               (mot'.curL = mot.curL /\ mot'.curR = mot.curR)
     /\ (Abs(mot'.curL - mot.curL) > 1 \/ Abs(mot'.curR - mot.curR) > 1) =>
          op' = "stop_immediate"]_vars

\* an immediate stop has taken the left level from 2 or more to 0
C4_Witness ==
  /\ op = "stop_immediate"
  /\ ramp.prevL >= 2
  /\ mot.curL = 0

\* the level reached from level from after ticks ramp ticks toward tgt
RampExpected(from, tgt, ticks) ==
  IF tgt >= from THEN Min(tgt, from + ticks) ELSE Max(tgt, from - ticks)

\* C5: while the targets are not changed and no immediate stop occurs, each
\* side's current level is its level when the targets were set moved toward
\* the target by one unit per ramp tick, until it equals the target after
\* exactly |target - current| ticks, where it stays.
C5_RampConverges ==
  /\ mot.curL = RampExpected(ramp.fromL, mot.tgtL, ramp.ticks)
  /\ mot.curR = RampExpected(ramp.fromR, mot.tgtR, ramp.ticks)

\* a move from level 0 to target 2 has reached its target and stayed there
C5_Witness ==
  /\ ramp.fromL = 0
  /\ mot.tgtL = 2
  /\ ramp.ticks > 2
  /\ mot.curL = 2

\* C6: the update call that finds the deadline of a timed move elapsed (clears
\* the targets and the deadline and) writes the line EVT:MOVE_DONE.
C6_MoveDoneWritten ==
  [][(op' = "update" /\ DeadlineElapsed(mot, clock')) =>
       (/\ mot'.tgtL = 0 /\ mot'.tgtR = 0 /\ mot'.moveEnd = Zero32
        /\ Count(out', S_EVT_MOVE_DONE) = 1)]_vars

\* C7: on return of stop(immediate = true) both current levels and both
\* targets are 0, both enable outputs are 0 and the direction pins of both
\* sides are in the Neutral state (LOW, LOW).
C7_ImmediateStopNeutral ==
  [][op' = "stop_immediate" =>
       (/\ Stopped(mot')
        /\ mot'.enL = 0 /\ mot'.enR = 0
        /\ mot'.in1L = 0 /\ mot'.in2L = 0
        /\ mot'.in1R = 0 /\ mot'.in2R = 0)]_vars

IdChar(b) == CASE b = 1 -> "1" [] b = 2 -> "2"
\* the line EVT:LMT:<id>:<0|1>
LmtLine(b, closed) ==
  <<"E", "V", "T", ":", "L", "M", "T", ":">> \o <<IdChar(b), ":", IF closed THEN "1" ELSE "0">>
\* the line EVT:ALARM:BOX_FORCED:<id>
AlarmLine(b) ==
  <<"E", "V", "T", ":", "A", "L", "A", "R", "M", ":", "B", "O", "X", "_", "F", "O", "R", "C", "E", "D", ":">> \o <<IdChar(b)>>

\* C8: in the service updates, a box whose reading differs from its stored
\* door state writes the door event of the new state, and the alarm line of a
\* box is written if and only if its reading differs, the new state is open
\* and the box is locked.
C8_DoorEventAndAlarm ==
  [][op' = "update" =>
       \A b \in BoxIds :
         LET closed == limitPin[b] = 0
             accepted == closed # boxes[b].lastLimitState
         IN /\ accepted => Count(NewLines, LmtLine(b, closed)) = 1
            /\ Count(NewLines, AlarmLine(b)) =
                 (IF accepted /\ ~closed /\ boxes[b].isLocked THEN 1 ELSE 0)]_vars

\* in one iteration the door of the unlocked box 1 opens with the door event
\* only, and the door of the locked box 2 opens with the alarm
C8_Witness ==
  /\ op = "update"
  /\ ~boxes[1].isLocked
  /\ Count(out, LmtLine(1, FALSE)) = 1
  /\ Count(out, AlarmLine(1)) = 0
  /\ boxes[2].isLocked
  /\ Count(out, LmtLine(2, FALSE)) = 1
  /\ Count(out, AlarmLine(2)) = 1

\* the line is a valid SRV command whose id, as written, is not in 1..BOX_COUNT
SrvIdOutside(line) ==
  LET cmd == parse(line)
  IN cmd.isValid /\ cmd.type = S_SRV /\ AtoiDigits(cmd.action, 1, 0) \notin BoxIds

\* C9: an SRV command whose compartment id, as written, is outside
\* 1..BOX_COUNT changes no box: no locked flag, no servo angle.
C9_OutOfRangeIdIgnored ==
  [][(op' = "rx" /\ rxLine'.done /\ SrvIdOutside(rxLine'.text)) =>
       boxes' = boxes]_vars

\* the text before the first ':' or the text after it up to the second ':'
\* (or the end of the line) is missing or empty
FieldMissingOrEmpty(line) ==
  LET c1 == FindChars(line, 1, {COLON})
      c2 == FindChars(line, c1 + 1, {COLON})
  IN c1 > Len(line) \/ c1 = 1 \/ c2 = c1 + 1

\* C10: a completed line whose type or action field is missing or empty
\* writes no line and leaves the motor and box state unchanged.
C10_MalformedLineDropped ==
  [][(op' = "rx" /\ rxLine'.done /\ FieldMissingOrEmpty(rxLine'.text)) =>
       (out' = out /\ mot' = mot /\ boxes' = boxes)]_vars

\* the first n characters of s, all of s if it is shorter
Prefix(s, n) == SubSeq(s, 1, Min(Len(s), n))

\* the positions of the first and of the second ':' of line (beyond its end
\* if there is none)
Colon1(line) == FindChars(line, 1, {COLON})
Colon2(line) == FindChars(line, Colon1(line) + 1, {COLON})

\* line has at least two ':' and non-empty type and action fields
ThreeFields(line) ==
  /\ Colon2(line) <= Len(line)
  /\ Colon1(line) > 1
  /\ Colon2(line) > Colon1(line) + 1

\* C11: for a line with at least two ':' and non-empty type and action
\* fields, parse returns a valid command whose type is the text before the
\* first ':', whose action is the text between the first and the second ':'
\* and whose value is all the text after the second ':', each cut to the
\* capacity of its field (7, 11 and 31 characters).
C11_ParseSplitsOnFirstTwoColons ==
  (rxLine.done /\ ThreeFields(rxLine.text)) =>
    LET line == rxLine.text
    IN rxLine.cmd =
         [type |-> Prefix(SubSeq(line, 1, Colon1(line) - 1), 7),
          action |-> Prefix(SubSeq(line, Colon1(line) + 1, Colon2(line) - 1), 11),
          value |-> Prefix(SubSeq(line, Colon2(line) + 1, Len(line)), 31),
          isValid |-> TRUE]

\* C12: the step that completes the line SYS:PING (no value field) accepts
\* it as a valid command and writes exactly one line SYS:PONG.
C12_PingAnswered ==
  [][(op' = "rx" /\ rxLine'.done
        /\ rxLine'.raw = <<"S", "Y", "S", ":", "P", "I", "N", "G">>) =>
       (/\ rxLine'.cmd.isValid
        /\ Count(NewLines, <<"S", "Y", "S", ":", "P", "O", "N", "G">>) = 1)]_vars

\* the number a field holds, read as decimal digits
FieldNumber(field) == AtoiDigits(field, 1, 0)

\* the (left, right) directions of a MOV action
MovDirs(action) ==
  CASE action = <<"F", "W", "D">> -> <<1, 1>>
    [] action = <<"B", "C", "K">> -> <<-1, -1>>
    [] action = <<"L", "F", "T">> -> <<-1, 1>>
    [] action = <<"R", "G", "T">> -> <<1, -1>>

\* C13: the step that completes a valid MOV line with action FWD, BCK, LFT or
\* RGT leaves both targets at DEFAULT_SPEED, the directions (1,1), (-1,-1),
\* (-1,1) and (1,-1) respectively, and the deadline at the time of the call
\* plus the duration field (none for duration 0); with action STP it leaves
\* the motors stopped.
C13_MovSetsTargetsAndDirections ==
  [][(op' = "rx" /\ rxLine'.done /\ rxLine'.cmd.isValid
        /\ rxLine'.cmd.type = <<"M", "O", "V">>) =>
       LET action == rxLine'.cmd.action
           d == FieldNumber(rxLine'.cmd.value)
       IN /\ action \in {<<"F", "W", "D">>, <<"B", "C", "K">>,
                          <<"L", "F", "T">>, <<"R", "G", "T">>} =>
               /\ mot'.tgtL = DEFAULT_SPEED /\ mot'.tgtR = DEFAULT_SPEED
               /\ <<mot'.dirL, mot'.dirR>> = MovDirs(action)
               /\ mot'.moveEnd =
                    (IF d > 0 THEN Add32(clock', U32(d)) ELSE Zero32)
          /\ action = <<"S", "T", "P">> => Stopped(mot')]_vars

\* the lines of lines that are acknowledgements
IsAck(l) == Len(l) >= 4 /\ SubSeq(l, 1, 4) = <<"A", "C", "K", ":">>
AckLines(lines) == SelectSeq(lines, IsAck)

\* C14: the step that completes a line which parse accepts as a valid MOV
\* command writes exactly one acknowledgement, ACK:MOV; one that completes a
\* valid SRV command writes exactly one, ACK:SRV; every other step (an LCD
\* or SYS line, an invalid line, bytes of an unfinished line, the watchdog,
\* the service updates) writes no acknowledgement.
C14_AckPerMovAndSrv ==
  [][AckLines(NewLines) =
       (IF op' = "rx" /\ rxLine'.done /\ rxLine'.cmd.isValid
             /\ rxLine'.cmd.type = <<"M", "O", "V">>
          THEN << <<"A", "C", "K", ":", "M", "O", "V">> >>
        ELSE IF op' = "rx" /\ rxLine'.done /\ rxLine'.cmd.isValid
             /\ rxLine'.cmd.type = <<"S", "R", "V">>
          THEN << <<"A", "C", "K", ":", "S", "R", "V">> >>
        ELSE <<>>)]_vars

\* in the second iteration a MOV line with an unknown action has been
\* acknowledged with the one line ACK:MOV, the motors being left idle
C14_Witness ==
  /\ op = "rx"
  /\ iter = 2
  /\ rxLine.raw = <<"M", "O", "V", ":", "X", "Y", "Z", ":", "0">>
  /\ out = << <<"A", "C", "K", ":", "M", "O", "V">> >>
  /\ ~isMoving(mot) /\ mot.tgtL = 0

\* C15: the step that completes a valid SRV line whose id is in 1..BOX_COUNT
\* leaves that box unlocked with its servo at the open angle when the value
\* is exactly OPEN, and locked with its servo at the closed angle for any
\* other value; the locked flag and the servo of every other box are
\* unchanged.
C15_SrvOpensOrLocksOneBox ==
  [][(op' = "rx" /\ rxLine'.done /\ rxLine'.cmd.isValid
        /\ rxLine'.cmd.type = <<"S", "R", "V">>
        /\ FieldNumber(rxLine'.cmd.action) \in 1..BOX_COUNT) =>
       LET id == FieldNumber(rxLine'.cmd.action)
           isOpen == rxLine'.cmd.value = <<"O", "P", "E", "N">>
       IN /\ boxes'[id].isLocked = ~isOpen
          /\ boxes'[id].servo =
               (IF isOpen THEN SERVO_OPEN_ANGLE ELSE SERVO_CLOSE_ANGLE)
          /\ \A b \in BoxIds \ {id} :
               /\ boxes'[b].isLocked = boxes[b].isLocked
               /\ boxes'[b].servo = boxes[b].servo]_vars

\* box 2 has been locked by a value other than OPEN (open in lower case)
\* while box 1, opened in the iteration before, stays unlocked
C15_Witness ==
  /\ op = "rx"
  /\ rxLine.raw = <<"S", "R", "V", ":", "2", ":", "o", "p", "e", "n">>
  /\ boxes[2].isLocked /\ boxes[2].servo = SERVO_CLOSE_ANGLE
  /\ ~boxes[1].isLocked /\ boxes[1].servo = SERVO_OPEN_ANGLE

\* the level one ramp step takes cur to, on the way to tgt
OneStepToward(cur, tgt) ==
  IF cur < tgt THEN cur + 1 ELSE IF cur > tgt THEN cur - 1 ELSE cur

\* C16: in every iteration input is drained first, the watchdog is evaluated
\* next and the service updates run last, each exactly once: input is read
\* only before the watchdog, the watchdog is evaluated only after the start of
\* the iteration or after input, the updates run only right after the watchdog
\* and an iteration starts only after the updates of the one before.  The
\* updates take each side at most one ramp step, toward the target the
\* commands of this iteration have set, however many commands were
\* dispatched, and store every door's reading.
C16_DrainThenWatchdogThenUpdates ==
  [][/\ op' = "rx" => op \in {"loop", "rx"}
     /\ op' = "watchdog" => op \in {"loop", "rx"}
     /\ op' = "update" => op = "watchdog"
     /\ op' = "loop" => op \in {"setup", "update"}
     /\ op' = "update" =>
          /\ mot'.curL \in {mot.curL, OneStepToward(mot.curL, mot.tgtL)}
          /\ mot'.curR \in {mot.curR, OneStepToward(mot.curR, mot.tgtR)}
          /\ Ge32(Sub32(clock', mot.lastRamp), U32(RAMP_INTERVAL_MS)) =>
               /\ mot'.curL = OneStepToward(mot.curL, mot.tgtL)
               /\ mot'.curR = OneStepToward(mot.curR, mot.tgtR)
          /\ \A b \in BoxIds : boxes'[b].lastLimitState = (limitPin[b] = 0)]_vars

\* the first iteration dispatched two commands, a stop and a move, and its
\* updates have taken the one ramp step toward the target of the move
C16_Witness ==
  /\ op = "update"
  /\ iter = 1
  /\ wd.cmds = 2
  /\ mot.tgtL = DEFAULT_SPEED
  /\ mot.curL = 1 /\ mot.curR = 1

\* the step completes a line that parse accepts as a valid command
ValidCommandStep == op' = "rx" /\ rxLine'.done /\ rxLine'.cmd.isValid

\* C17: a step that completes a valid command sets the watchdog timestamp to
\* the iteration's time; every other step (bytes of an unfinished line, an
\* invalid line, the watchdog, the service updates, the start of an
\* iteration) leaves it unchanged.
C17_TimestampResetByValidCommandOnly ==
  [][/\ ValidCommandStep => lastSerialTime' = now'
     /\ ~ValidCommandStep => lastSerialTime' = lastSerialTime]_vars

\* C18: after stop and after a move of duration 0 no deadline is pending;
\* after a move of duration D > 0 the deadline is the time of that call plus
\* D; update never sets a deadline, and it changes the targets only while a
\* deadline is pending.  Hence a pending deadline is always the one of the
\* last move, and an indefinite move keeps its targets until the next stop
\* or move.
C18_NewCallOverridesDeadline ==
  [][/\ op' \in {"stop", "stop_immediate"} => mot'.moveEnd = Zero32
     /\ (op' = "move" /\ call'.dur = 0) => mot'.moveEnd = Zero32
     /\ (op' = "move" /\ call'.dur > 0) =>
          mot'.moveEnd = Add32(clock, U32(call'.dur))
     /\ op' = "update" =>
          /\ mot'.moveEnd \in {mot.moveEnd, Zero32}
          /\ mot.moveEnd = Zero32 =>
               (mot'.tgtL = mot.tgtL /\ mot'.tgtR = mot.tgtR)
     /\ mot'.moveEnd # Zero32 =>
          (call'.dur > 0 /\ mot'.moveEnd = Add32(call'.at, U32(call'.dur)))]_vars

\* an indefinite move has replaced a timed move, and update runs with the
\* targets still set although the time of the earlier deadline has passed
C18_Witness ==
  /\ op = "update"
  /\ call.prevDur > 0 /\ call.dur = 0
  /\ Ge32(Sub32(clock, call.at), U32(call.prevDur))
  /\ mot.tgtL > 0 /\ mot.tgtR > 0
  /\ mot.moveEnd = Zero32

\* C19: every box is locked after setup, and in every state a box is locked
\* exactly when the angle last written to its servo is SERVO_CLOSE_ANGLE and
\* unlocked exactly when it is SERVO_OPEN_ANGLE.
C19_LockedMatchesServo ==
  \A b \in BoxIds :
    /\ op = "setup" => boxes[b].isLocked
    /\ boxes[b].isLocked <=> boxes[b].servo = SERVO_CLOSE_ANGLE
    /\ ~boxes[b].isLocked <=> boxes[b].servo = SERVO_OPEN_ANGLE

\* box 2 has been opened, its servo at the open angle, while box 1 is locked
\* with its servo at the closed angle
C19_Witness ==
  /\ op = "rx"
  /\ rxLine.raw = <<"S", "R", "V", ":", "2", ":", "O", "P", "E", "N">>
  /\ ~boxes[2].isLocked /\ boxes[2].servo = SERVO_OPEN_ANGLE
  /\ boxes[1].isLocked /\ boxes[1].servo = SERVO_CLOSE_ANGLE

\* C20: the buffer index never exceeds CMD_BUFFER_SIZE - 1; the line handed
\* to parse at a terminator is the first CMD_BUFFER_SIZE - 1 of the bytes read
\* since the previous terminator (all of them if they are fewer), the rest
\* having been dropped; and the index is 0 after the terminator.
C20_BufferIndexBounded ==
  /\ Len(cmdBuffer) <= CMD_BUFFER_SIZE - 1
  /\ rxLine.done =>
       /\ rxLine.text = Prefix(rxLine.raw, CMD_BUFFER_SIZE - 1)
       /\ rxLine.cmd = parse(Prefix(rxLine.raw, CMD_BUFFER_SIZE - 1))
       /\ cmdBuffer = <<>>

\* a line of more than 63 characters has been completed and handed to parse
\* cut to 63 characters, as a valid LCD command
C20_Witness ==
  /\ rxLine.done
  /\ Len(rxLine.raw) > CMD_BUFFER_SIZE - 1
  /\ Len(rxLine.text) = CMD_BUFFER_SIZE - 1
  /\ rxLine.cmd.isValid /\ rxLine.cmd.type = <<"L", "C", "D">>
  /\ cmdBuffer = <<>>

\* C21: once input has stopped arriving and the loop keeps iterating while
\* time advances, both current levels eventually are 0 and stay 0.
C21_EventuallyStoppedForGood ==
  <>[](mot.curL = 0 /\ mot.curR = 0)

\* the input has been silent for the short iterations and more; the watchdog
\* has tripped in this iteration, with the motors moving on an indefinite
\* move, and left them stopped
C21_Witness ==
  /\ iter > LiveShortIters
  /\ pc = "update"
  /\ wd.tripped /\ wd.movingAtEval
  /\ Stopped(mot)
  /\ mot.moveEnd = Zero32

\* C22: after a move of duration D > 0 a deadline is pending, whatever the
\* value of millis() at the call; and an update call finds the deadline
\* elapsed (and clears the targets) only when at least D milliseconds have
\* passed since that call.
C22_DeadlineAfterDuration ==
  [][/\ (op' = "move" /\ call'.dur > 0) => mot'.moveEnd # Zero32
     /\ (op' = "update" /\ DeadlineElapsed(mot, clock')) =>
          /\ mot'.tgtL = 0 /\ mot'.tgtR = 0
          /\ Ge32(Sub32(clock', call.at), U32(call.dur))]_vars

\* the direction the pins (in1, in2) of a side apply
PinDir(in1, in2) ==
  IF in1 = 1 /\ in2 = 0 THEN "Forward"
  ELSE IF in1 = 0 /\ in2 = 1 THEN "Backward" ELSE "Neutral"

\* the pins (in1, in2) change from Forward to Backward or back
Reverses(in1, in2, in1n, in2n) ==
  /\ PinDir(in1, in2) \in {"Forward", "Backward"}
  /\ PinDir(in1n, in2n) \in {"Forward", "Backward"}
  /\ PinDir(in1, in2) # PinDir(in1n, in2n)

\* C23: a step changes the direction applied to a side's pins from Forward
\* to Backward or back only if that side's current level was 0 before the
\* step.
C23_ReverseOnlyAtLevelZero ==
  [][/\ Reverses(mot.in1L, mot.in2L, mot'.in1L, mot'.in2L) => mot.curL = 0
     /\ Reverses(mot.in1R, mot.in2R, mot'.in1R, mot'.in2R) => mot.curR = 0]_vars

\* C24: in the service updates each box writes its door event exactly when
\* the reading differs from the stored door state, with the reading as the
\* value, and stores the reading in that step; with an unchanged reading it
\* writes nothing and the box is unchanged. No other step changes the stored
\* door state (isDoorClosed()) or writes a door event, so the stored state is
\* the value last reported and consecutive events of a box alternate.
C24_DoorEventIffReadingDiffers ==
  [][/\ op' = "update" =>
          \A b \in BoxIds :
            LET reading == limitPin[b] = 0
                differs == reading # boxes[b].lastLimitState
            IN /\ Count(NewLines, LmtLine(b, reading)) =
                    (IF differs THEN 1 ELSE 0)
               /\ Count(NewLines, LmtLine(b, ~reading)) = 0
               /\ boxes'[b].lastLimitState = reading
               /\ ~differs => /\ boxes'[b] = boxes[b]
                              /\ Count(NewLines, AlarmLine(b)) = 0
     /\ op' # "update" =>
          \A b \in BoxIds :
            /\ boxes'[b].lastLimitState = boxes[b].lastLimitState
            /\ \A v \in BOOLEAN :
                 Count(out', LmtLine(b, v)) <= Count(out, LmtLine(b, v))]_vars

\* in the second iteration the door of box 1 is read closed after being open
\* and is reported closed, while box 2, read closed as before, reports
\* nothing
C24_Witness ==
  /\ op = "update"
  /\ iter = 2
  /\ boxes[1].lastLimitState
  /\ Count(out, LmtLine(1, TRUE)) = 1
  /\ Count(out, LmtLine(1, FALSE)) = 0
  /\ boxes[2].lastLimitState
  /\ \A v \in BOOLEAN : Count(out, LmtLine(2, v)) = 0

=============================================================================
